---- MODULE Spec2Model ----
(***************************************************************************)
(* A state-machine model of the gameplay policy code of the Aura project:  *)
(* the attribute set's clamping hooks, the effect actor, the character's   *)
(* default-attribute initialisation, the player controller's cursor trace  *)
(* and click-to-move input, and the HUD's widget-controller getters.       *)
(* Each subsystem has its own specification; the variables of the other    *)
(* subsystems stay at their constructed values.                            *)
(***************************************************************************)
EXTENDS Integers, Sequences, FiniteSets, TLC

VARIABLES
    \* UAuraAttributeSet
    Health, Mana, MaxHealth, MaxMana,
    lastAttr,             \* observation of the last attribute-set hook that ran
    \* AAuraEffectActor
    policyOf,             \* Instant/Duration/InfiniteEffectApplicationPolicy
    classOf,              \* Instant/Duration/InfiniteGameplayEffectClass
    InfiniteEffectRemovalPolicy,
    ActiveEffectHandles,  \* TMap<FActiveGameplayEffectHandle, UAbilitySystemComponent*>
    nextHandle,           \* the engine's next fresh active-effect handle
    lastOverlap,          \* observation of the last overlap handler that ran
    everRequested,        \* slots whose application was ever requested
    everRemoved,          \* TRUE once RemoveActiveGameplayEffect was requested
    everAdded,            \* <<component, handle>> of the infinite effects ever added
    \* AAuraHUD
    OverlayWidgetController,        \* id of the controller object, or NullObject
    AttributeMenuWidgetController,  \* id of the controller object, or NullObject
    OverlayWidget,                  \* the widget last created by InitOverlay
    OverlayWidgetClass,             \* TRUE when the widget class is set
    objects,              \* the widget controllers created so far, by object id
    viewport,             \* number of widgets added to the viewport
    lastHUD,              \* observation of the last HUD call
    creatorParams,        \* per getter, the WCParams of the call that found no controller
    \* AAuraCharacterBase / AAuraCharacter
    AbilitySystemComponent,         \* the character's component pointer, or None
    AttributeSet,                   \* the character's attribute-set pointer, or None
    DefaultPrimaryAttributes,       \* gameplay-effect class, or None
    DefaultSecondaryAttributes,     \* gameplay-effect class, or None
    DefaultVitalAttributes,         \* gameplay-effect class, or None
    StartupAbilities,               \* the ability classes the character starts with
    HasAuthority,                   \* TRUE on the server
    selfEffects,          \* the effects applied to the character's component, in order
    grantedAbilities,     \* <<component, ability>> granted so far
    actorInfoSet,         \* components whose ability actor info was initialised
    lastCharacter,        \* observation of the last character handler that ran
    \* AAuraPlayerController
    ThisActor, LastActor,           \* the actor under the cursor, now and before
    CursorHit,                      \* the hit result of the last cursor trace
    bTargeting, bAutoRunning,
    FollowTime,                     \* in quarters of a second
    CachedDestination,
    SplinePoints,                   \* the points of SplineComponent
    Pawn,                           \* the controlled pawn, or None
    AuraAbilitySystemComponent,     \* the cached component, or None
    highlighted,          \* the enemies whose highlight is on
    lmbDown,              \* TRUE while the left-mouse input action is down
    pressHeld,            \* how long the present left-mouse press has been held
    lastController,       \* observation of the last controller handler that ran
    \* UAuraAbilitySystemComponent
    ActivatableAbilities, \* the ability specs granted to the component, in order
    lastASC               \* observation of the last component call

attrVars   == <<Health, Mana, MaxHealth, MaxMana, lastAttr>>
effectVars == <<policyOf, classOf, InfiniteEffectRemovalPolicy, ActiveEffectHandles,
                nextHandle, lastOverlap, everRequested, everRemoved, everAdded>>
hudVars    == <<OverlayWidgetController, AttributeMenuWidgetController, OverlayWidget,
                OverlayWidgetClass, objects, viewport, lastHUD, creatorParams>>
characterVars == <<AbilitySystemComponent, AttributeSet, DefaultPrimaryAttributes,
                   DefaultSecondaryAttributes, DefaultVitalAttributes, StartupAbilities,
                   HasAuthority, selfEffects, grantedAbilities, actorInfoSet,
                   lastCharacter>>
controllerVars == <<ThisActor, LastActor, CursorHit, bTargeting, bAutoRunning, FollowTime,
                    CachedDestination, SplinePoints, Pawn, AuraAbilitySystemComponent,
                    highlighted, lmbDown, pressHeld, lastController>>
ascVars == <<ActivatableAbilities, lastASC>>
vars == <<attrVars, effectVars, hudVars, characterVars, controllerVars, ascVars>>

None == "None"

-----------------------------------------------------------------------------
(***************************************************************************)
(* UAuraAttributeSet: PreAttributeChange and PostGameplayEffectExecute.    *)
(* Attribute values are floats in the program; the model uses integers.    *)
(***************************************************************************)

\* Largest MaxHealth / MaxMana of the model.
MaxValue == 3
\* Largest magnitude of a modifier; larger than MaxValue, so that a single
\* modifier can overshoot the range on either side.
MaxMagnitude == 4

ClampedAttributes == {"Health", "Mana"}
Attributes == {"Health", "Mana", "Strength"}
ProposedValues == (0 - MaxMagnitude)..(MaxValue + MaxMagnitude)
Magnitudes == (0 - MaxMagnitude)..MaxMagnitude

\* FMath::Clamp(X, Min, Max)
Clamp(X, Min, Max) == IF X < Min THEN Min ELSE IF X < Max THEN X ELSE Max

PreAttributeChange_HealthAgainstMaxMana(Attribute, NewValue) ==
    IF Attribute = "Health" THEN Clamp(NewValue, 0, MaxMana)
    ELSE IF Attribute = "Mana" THEN Clamp(NewValue, 0, MaxMana)
    ELSE NewValue

\* The outgoing NewValue of PreAttributeChange(Attribute, NewValue).
PreAttributeChange(Attribute, NewValue) ==
    IF Attribute = "Health" THEN Clamp(NewValue, 0, MaxHealth)
    ELSE IF Attribute = "Mana" THEN Clamp(NewValue, 0, MaxMana)
    ELSE NewValue

PostGameplayEffectExecute_NoLowerBound(Attribute, Raw) ==
    IF Attribute = "Health" THEN (IF Raw < MaxHealth THEN Raw ELSE MaxHealth)
    ELSE IF Attribute = "Mana" THEN (IF Raw < MaxMana THEN Raw ELSE MaxMana)
    ELSE Raw

\* The value PostGameplayEffectExecute stores for the attribute the effect
\* modified, given the raw value the engine wrote before calling it.
PostGameplayEffectExecute(Attribute, Raw) ==
    IF Attribute = "Health" THEN Clamp(Raw, 0, MaxHealth)
    ELSE IF Attribute = "Mana" THEN Clamp(Raw, 0, MaxMana)
    ELSE Raw

AttrInit ==
    /\ MaxHealth \in 0..MaxValue
    /\ MaxMana \in 0..MaxValue
    /\ Health \in 0..MaxHealth
    /\ Mana \in 0..MaxMana
    /\ lastAttr = [op |-> None]

AttrIdle ==
    /\ MaxHealth = 0 /\ MaxMana = 0 /\ Health = 0 /\ Mana = 0
    /\ lastAttr = [op |-> None]

\* The engine proposes a new current value for an attribute; the hook adjusts
\* it and the engine stores the adjusted value.
AttributeChange ==
    \E Attribute \in Attributes, NewValue \in ProposedValues :
        LET out == PreAttributeChange(Attribute, NewValue) IN
        /\ Health' = IF Attribute = "Health" THEN out ELSE Health
        /\ Mana' = IF Attribute = "Mana" THEN out ELSE Mana
        /\ lastAttr' = [op |-> "PreAttributeChange", attr |-> Attribute,
                        in |-> NewValue, out |-> out]
        /\ UNCHANGED <<MaxHealth, MaxMana>>
        /\ UNCHANGED <<effectVars, hudVars, characterVars, controllerVars, ascVars>>

\* An instant gameplay effect executes on Health or Mana: the engine adds the
\* modifier's magnitude to the stored value and then calls the hook.
GameplayEffectExecute ==
    \E Attribute \in ClampedAttributes, Magnitude \in Magnitudes :
        LET Raw == (IF Attribute = "Health" THEN Health ELSE Mana) + Magnitude
            out == PostGameplayEffectExecute(Attribute, Raw) IN
        /\ Health' = IF Attribute = "Health" THEN out ELSE Health
        /\ Mana' = IF Attribute = "Mana" THEN out ELSE Mana
        /\ lastAttr' = [op |-> "PostGameplayEffectExecute", attr |-> Attribute,
                        in |-> Raw, out |-> out]
        /\ UNCHANGED <<MaxHealth, MaxMana>>
        /\ UNCHANGED <<effectVars, hudVars, characterVars, controllerVars, ascVars>>

-----------------------------------------------------------------------------
(***************************************************************************)
(* AAuraEffectActor: OnOverlap, OnEndOverlap, ApplyEffectToTarget.         *)
(***************************************************************************)

\* Largest active-effect handle the engine hands out in the model.
MaxHandles == 2

Slots == {"Instant", "Duration", "Infinite"}
ApplicationPolicies == {"ApplyOnOverlap", "ApplyOnEndOverlap", "DoNotApply"}
RemovalPolicies == {"RemoveOnEndOverlap", "DoNotRemove"}
\* A gameplay-effect class is identified by the DurationPolicy of its definition.
DurationPolicies == {"Instant", "HasDuration", "Infinite"}
EffectClasses == DurationPolicies \cup {None}
\* The classes a designer puts in each slot in the model: the slot's own kind
\* of effect or none, and in the instant slot also an infinite effect.
SlotClasses(slot) ==
    CASE slot = "Instant" -> {None, "Instant", "Infinite"}
      [] slot = "Duration" -> {None, "HasDuration"}
      [] OTHER -> {None, "Infinite"}

\* Two actors that own an ability system component and one that owns none.
Actors == {"Actor1", "Actor2", "Actor3"}
\* UAbilitySystemBlueprintLibrary::GetAbilitySystemComponent
GetAbilitySystemComponent(Actor) ==
    CASE Actor = "Actor1" -> "ASC1"
      [] Actor = "Actor2" -> "ASC2"
      [] OTHER -> None

\* FActiveGameplayEffectHandle(): the handle of an effect that was not added.
InvalidHandle == 0

\* TMap::Add: a new key is added, the value of an existing key is replaced.
MapAdd(map, key, value) ==
    [k \in (DOMAIN map) \cup {key} |-> IF k = key THEN value ELSE map[k]]
\* TMap::FindAndRemoveChecked, for each key of `keys` (all of them present).
MapRemoveAll(map, keys) == [k \in (DOMAIN map) \ keys |-> map[k]]

EmptyMap == [k \in {} |-> None]

\* The state a handler threads through its calls.
HandlerStart ==
    [handles |-> ActiveEffectHandles, next |-> nextHandle,
     requests |-> {}, applied |-> {}, removed |-> {}]

ApplyEffectToTarget_AlwaysTracks(st, InTargetActor, InGameplayEffectClass, applies) ==
    LET L_TargetASC == GetAbilitySystemComponent(InTargetActor)
        added == applies /\ InGameplayEffectClass # "Instant"
        handle == IF added THEN st.next ELSE InvalidHandle
        bIsInfinite == InGameplayEffectClass = "Infinite"
        st1 == [st EXCEPT !.next = IF added THEN @ + 1 ELSE @,
                          !.applied = @ \cup {<<L_TargetASC, InGameplayEffectClass, handle>>}]
    IN  IF InGameplayEffectClass = None \/ L_TargetASC = None THEN st
        ELSE IF bIsInfinite
             THEN [st1 EXCEPT !.handles = MapAdd(@, handle, L_TargetASC)]
             ELSE st1

ApplyEffectToTarget_IgnoresInvalidTarget(st, InTargetActor, InGameplayEffectClass, applies) ==
    LET L_TargetASC == GetAbilitySystemComponent(InTargetActor)
        added == applies /\ InGameplayEffectClass # "Instant"
        handle == IF added THEN st.next ELSE InvalidHandle
        bIsInfinite == InGameplayEffectClass = "Infinite"
        st1 == [st EXCEPT !.next = IF added THEN @ + 1 ELSE @,
                          !.applied = @ \cup {<<L_TargetASC, InGameplayEffectClass, handle>>}]
    IN  IF InGameplayEffectClass = None THEN st
        ELSE IF bIsInfinite /\ InfiniteEffectRemovalPolicy = "RemoveOnEndOverlap"
             THEN [st1 EXCEPT !.handles = MapAdd(@, handle, L_TargetASC)]
             ELSE st1

\* ApplyEffectToTarget; `applies` is the engine's outcome of
\* ApplyGameplayEffectSpecToSelf: an effect with a duration is added to the
\* component under a fresh handle, or it is not added (the target is immune,
\* an application requirement fails) and the handle is invalid. An instant
\* effect is executed, never added, and its handle is invalid.
ApplyEffectToTarget(st, InTargetActor, InGameplayEffectClass, applies) ==
    LET L_TargetASC == GetAbilitySystemComponent(InTargetActor)
        added == applies /\ InGameplayEffectClass # "Instant"
        handle == IF added THEN st.next ELSE InvalidHandle
        bIsInfinite == InGameplayEffectClass = "Infinite"
        st1 == [st EXCEPT !.next = IF added THEN @ + 1 ELSE @,
                          !.applied = @ \cup {<<L_TargetASC, InGameplayEffectClass, handle>>}]
    IN  IF InGameplayEffectClass = None \/ L_TargetASC = None THEN st
        ELSE IF bIsInfinite /\ InfiniteEffectRemovalPolicy = "RemoveOnEndOverlap"
             THEN [st1 EXCEPT !.handles = MapAdd(@, handle, L_TargetASC)]
             ELSE st1

\* One `if (policy == when) ApplyEffectToTarget(...)` statement of a handler.
ApplyIfPolicy(st, slot, when, TargetActor, applies) ==
    IF policyOf[slot] = when
    THEN ApplyEffectToTarget([st EXCEPT !.requests = @ \cup {slot}],
                             TargetActor, classOf[slot], applies[slot])
    ELSE st

ApplyPolicies_DurationUsesInstantPolicy(st, when, TargetActor, applies) ==
    LET s1 == ApplyIfPolicy(st, "Instant", when, TargetActor, applies)
        s2 == IF policyOf["Instant"] = when
              THEN ApplyEffectToTarget([s1 EXCEPT !.requests = @ \cup {"Duration"}],
                                       TargetActor, classOf["Duration"], applies["Duration"])
              ELSE s1
    IN  ApplyIfPolicy(s2, "Infinite", when, TargetActor, applies)

\* The three policy tests of OnOverlap (when = ApplyOnOverlap) and of
\* OnEndOverlap (when = ApplyOnEndOverlap), in the order of the code.
ApplyPolicies(st, when, TargetActor, applies) ==
    LET s1 == ApplyIfPolicy(st, "Instant", when, TargetActor, applies)
        s2 == ApplyIfPolicy(s1, "Duration", when, TargetActor, applies)
    IN  ApplyIfPolicy(s2, "Infinite", when, TargetActor, applies)

RemoveHandles_KeepsMap(st, TargetActor) ==
    LET TargetASC == GetAbilitySystemComponent(TargetActor)
        HandlesToRemove == {h \in DOMAIN st.handles : st.handles[h] = TargetASC}
    IN  IF InfiniteEffectRemovalPolicy = "RemoveOnEndOverlap" /\ TargetASC # None
        THEN [st EXCEPT !.removed = {<<TargetASC, h>> : h \in HandlesToRemove}]
        ELSE st

\* The removal block of OnEndOverlap: RemoveActiveGameplayEffect is requested
\* for every handle mapped to the target's component, then those keys are
\* removed from the map.
RemoveHandles(st, TargetActor) ==
    LET TargetASC == GetAbilitySystemComponent(TargetActor)
        HandlesToRemove == {h \in DOMAIN st.handles : st.handles[h] = TargetASC}
    IN  IF InfiniteEffectRemovalPolicy = "RemoveOnEndOverlap" /\ TargetASC # None
        THEN [st EXCEPT !.removed = {<<TargetASC, h>> : h \in HandlesToRemove},
                        !.handles = MapRemoveAll(@, HandlesToRemove)]
        ELSE st

EffectInit ==
    /\ policyOf \in [Slots -> ApplicationPolicies]
    /\ classOf \in {c \in [Slots -> EffectClasses] : \A s \in Slots : c[s] \in SlotClasses(s)}
    /\ InfiniteEffectRemovalPolicy \in RemovalPolicies
    /\ ActiveEffectHandles = EmptyMap
    /\ nextHandle = 1
    /\ lastOverlap = [op |-> None]
    /\ everRequested = {}
    /\ everRemoved = FALSE
    /\ everAdded = {}

EffectIdle ==
    /\ policyOf = [s \in Slots |-> "DoNotApply"]
    /\ classOf = [s \in Slots |-> None]
    /\ InfiniteEffectRemovalPolicy = "RemoveOnEndOverlap"
    /\ ActiveEffectHandles = EmptyMap
    /\ nextHandle = 1
    /\ lastOverlap = [op |-> None]
    /\ everRequested = {}
    /\ everRemoved = FALSE
    /\ everAdded = {}

\* The engine's outcome matters only for a slot whose effect the handler
\* applies and the component can add.
Outcomes(when, TargetActor) ==
    {a \in [Slots -> BOOLEAN] :
        \A s \in Slots :
            (policyOf[s] # when \/ classOf[s] \in {None, "Instant"}
             \/ GetAbilitySystemComponent(TargetActor) = None) => a[s]}

\* The handler's result becomes the actor's state.
Commit(op, TargetActor, mid, st) ==
    /\ st.next <= MaxHandles + 1
    /\ ActiveEffectHandles' = st.handles
    /\ nextHandle' = st.next
    /\ lastOverlap' = [op |-> op, target |-> TargetActor, requests |-> st.requests,
                       applied |-> st.applied, removed |-> st.removed,
                       before |-> ActiveEffectHandles, tracked |-> mid.handles]
    /\ everRequested' = everRequested \cup st.requests
    /\ everRemoved' = (everRemoved \/ st.removed # {})
    /\ everAdded' = everAdded \cup {<<a[1], a[3]>> : a \in
                        {b \in st.applied : b[2] = "Infinite" /\ b[3] # InvalidHandle}}
    /\ UNCHANGED <<policyOf, classOf, InfiniteEffectRemovalPolicy>>
    /\ UNCHANGED <<attrVars, hudVars, characterVars, controllerVars, ascVars>>

OnOverlap ==
    \E TargetActor \in Actors :
      \E applies \in Outcomes("ApplyOnOverlap", TargetActor) :
        LET st == ApplyPolicies(HandlerStart, "ApplyOnOverlap", TargetActor, applies)
        IN  Commit("OnOverlap", TargetActor, st, st)

OnEndOverlap ==
    \E TargetActor \in Actors :
      \E applies \in Outcomes("ApplyOnEndOverlap", TargetActor) :
        LET mid == ApplyPolicies(HandlerStart, "ApplyOnEndOverlap", TargetActor, applies)
            st == RemoveHandles(mid, TargetActor)
        IN  Commit("OnEndOverlap", TargetActor, mid, st)

-----------------------------------------------------------------------------
(***************************************************************************)
(* AAuraHUD: GetOverlayWidgetController, GetAttributeMenuWidgetController, *)
(* InitOverlay.  The controller classes are set; NewObject on an unset     *)
(* class is fatal in the engine and the call returns nothing.              *)
(***************************************************************************)

\* Largest number of widgets InitOverlay adds to the viewport in the model.
MaxWidgets == 2
\* Largest number of widget-controller objects created in the model.
MaxObjects == 3

PlayerControllers == {"PC1", "PC2"}
PlayerStates == {"PS1", "PS2"}

\* FWidgetControllerParams(PC, PS, ASC, AS)
FWidgetControllerParams(PC, PS, ASC, AS) ==
    [PlayerController |-> PC, PlayerState |-> PS,
     AbilitySystemComponent |-> ASC, AttributeSet |-> AS]

\* The component and the attribute set live on the player state.
ASCOfPlayerState(PS) == IF PS = "PS1" THEN "ASC1" ELSE "ASC2"
AttributeSetOfPlayerState(PS) == IF PS = "PS1" THEN "AS1" ELSE "AS2"

\* The parameters callers build: a controller, a player state, and the
\* component and attribute set of that player state.
AllParams ==
    {FWidgetControllerParams(PC, PS, ASCOfPlayerState(PS), AttributeSetOfPlayerState(PS)) :
        PC \in PlayerControllers, PS \in PlayerStates}

NoParams == FWidgetControllerParams(None, None, None, None)

\* nullptr, as an object id; the controllers are numbered from 1.
NullObject == 0
\* The HUD before InitOverlay created a widget.
NoWidget == [valid |-> FALSE, WidgetController |-> NullObject]

\* The HUD's fields, as the value a call works on.
HUDState ==
    [Overlay |-> OverlayWidgetController, AttributeMenu |-> AttributeMenuWidgetController,
     Widget |-> OverlayWidget, objects |-> objects, viewport |-> viewport]

\* NewObject<...>(this, Class): a fresh controller with unset references.
NewObject(hud, kind) ==
    LET id == Cardinality(DOMAIN hud.objects) + 1 IN
    [hud |-> [hud EXCEPT !.objects = [i \in (DOMAIN @) \cup {id} |->
                            IF i = id
                            THEN [kind |-> kind, params |-> NoParams, binds |-> <<>>]
                            ELSE @[i]]],
     id |-> id]

\* UAuraWidgetController::SetWidgetControlParams
SetWidgetControlParams(hud, id, WCParams) ==
    [hud EXCEPT !.objects[id].params = WCParams]

\* BindCallbacksToDependencies: the controller adds its lambdas to the
\* delegates of the ability system component it refers to.
BindCallbacksToDependencies(hud, id) ==
    [hud EXCEPT !.objects[id].binds = Append(@, hud.objects[id].params.AbilitySystemComponent)]

\* A getter: `field` is the HUD field that holds the controller.
GetWidgetController_Rebinds(hud, field, WCParams) ==
    IF hud[field] = NullObject
    THEN LET n == NewObject(hud, field)
             h1 == SetWidgetControlParams(n.hud, n.id, WCParams)
             h2 == BindCallbacksToDependencies(h1, n.id)
         IN  [hud |-> [h2 EXCEPT ![field] = n.id], ret |-> n.id]
    ELSE [hud |-> BindCallbacksToDependencies(hud, hud[field]), ret |-> hud[field]]

GetWidgetController_ResetsParams(hud, field, WCParams) ==
    IF hud[field] = NullObject
    THEN LET n == NewObject(hud, field)
             h1 == SetWidgetControlParams(n.hud, n.id, WCParams)
             h2 == BindCallbacksToDependencies(h1, n.id)
         IN  [hud |-> [h2 EXCEPT ![field] = n.id], ret |-> n.id]
    ELSE [hud |-> SetWidgetControlParams(hud, hud[field], WCParams), ret |-> hud[field]]

\* The body the two getters share: create, configure and bind the controller
\* if the field holds no valid one, and return the field.
GetWidgetController(hud, field, WCParams) ==
    IF hud[field] = NullObject
    THEN LET n == NewObject(hud, field)
             h1 == SetWidgetControlParams(n.hud, n.id, WCParams)
             h2 == BindCallbacksToDependencies(h1, n.id)
         IN  [hud |-> [h2 EXCEPT ![field] = n.id], ret |-> n.id]
    ELSE [hud |-> hud, ret |-> hud[field]]

GetOverlayWidgetController(hud, WCParams) == GetWidgetController(hud, "Overlay", WCParams)

GetAttributeMenuWidgetController(hud, WCParams) ==
    GetWidgetController(hud, "AttributeMenu", WCParams)

\* InitOverlay(PC, PS, ASC, AS): a new widget is created, given the overlay
\* controller and added to the viewport.
InitOverlay(hud, widgetClass, PC, PS, ASC, AS) ==
    IF widgetClass
    THEN LET WidgetControllerParams == FWidgetControllerParams(PC, PS, ASC, AS)
             got == GetOverlayWidgetController(hud, WidgetControllerParams)
         IN  [hud |-> [got.hud EXCEPT !.Widget = [valid |-> TRUE, WidgetController |-> got.ret],
                                      !.viewport = @ + 1],
              ret |-> got.ret]
    ELSE [hud |-> hud, ret |-> NullObject]

HUDInit ==
    /\ OverlayWidgetController = NullObject
    /\ AttributeMenuWidgetController = NullObject
    /\ OverlayWidget = NoWidget
    /\ OverlayWidgetClass \in BOOLEAN
    /\ objects = EmptyMap
    /\ viewport = 0
    /\ lastHUD = [op |-> None]
    /\ creatorParams = [f \in {"Overlay", "AttributeMenu"} |-> NoParams]

HUDIdle == HUDInit /\ OverlayWidgetClass

\* The call's result becomes the HUD's state.
HUDCommit(op, WCParams, got) ==
    /\ got.hud.viewport <= MaxWidgets
    /\ Cardinality(DOMAIN got.hud.objects) <= MaxObjects
    /\ OverlayWidgetController' = got.hud.Overlay
    /\ AttributeMenuWidgetController' = got.hud.AttributeMenu
    /\ OverlayWidget' = got.hud.Widget
    /\ objects' = got.hud.objects
    /\ viewport' = got.hud.viewport
    /\ lastHUD' = [op |-> op, params |-> WCParams, ret |-> got.ret]
    /\ creatorParams' =
         [f \in {"Overlay", "AttributeMenu"} |->
            IF (\/ f = "Overlay" /\ op \in {"GetOverlayWidgetController", "InitOverlay"}
                                 /\ got.ret # NullObject /\ OverlayWidgetController = NullObject
                \/ f = "AttributeMenu" /\ op = "GetAttributeMenuWidgetController"
                                       /\ AttributeMenuWidgetController = NullObject)
            THEN WCParams ELSE creatorParams[f]]
    /\ UNCHANGED OverlayWidgetClass
    /\ UNCHANGED <<attrVars, effectVars, characterVars, controllerVars, ascVars>>

CallGetOverlayWidgetController ==
    \E WCParams \in AllParams :
        HUDCommit("GetOverlayWidgetController", WCParams,
                  GetOverlayWidgetController(HUDState, WCParams))

CallGetAttributeMenuWidgetController ==
    \E WCParams \in AllParams :
        HUDCommit("GetAttributeMenuWidgetController", WCParams,
                  GetAttributeMenuWidgetController(HUDState, WCParams))

CallInitOverlay ==
    \E WCParams \in AllParams :
        HUDCommit("InitOverlay", WCParams,
                  InitOverlay(HUDState, OverlayWidgetClass, WCParams.PlayerController,
                              WCParams.PlayerState, WCParams.AbilitySystemComponent,
                              WCParams.AttributeSet))

-----------------------------------------------------------------------------
(***************************************************************************)
(* AAuraCharacterBase and AAuraCharacter: ApplyEffectToSelf,               *)
(* InitializeDefaultAttributes, InitAbilityActorInfo, PossessedBy,         *)
(* OnRep_PlayerState, AddCharacterAbilities.                               *)
(***************************************************************************)

\* Largest number of effects applied to the character in the model.
MaxSelfEffects == 4

\* The value a character handler works on: the character's fields, the
\* engine state it changes, the HUD, and what the handler called.
CharacterState ==
    [ASC |-> AbilitySystemComponent, AS |-> AttributeSet, effects |-> selfEffects,
     granted |-> grantedAbilities, actorInfo |-> actorInfoSet, hud |-> HUDState,
     trace |-> <<>>, defaults |-> <<>>]

\* ApplyEffectToSelf(GameplayEffectClass, Level)
ApplyEffectToSelf(ch, GameplayEffectClass, Level) ==
    IF ch.ASC # None /\ GameplayEffectClass # None
    THEN LET e == [effect |-> GameplayEffectClass, level |-> Level, target |-> ch.ASC]
         IN  [ch EXCEPT !.effects = Append(@, e), !.defaults = Append(@, e)]
    ELSE ch

\* InitializeDefaultAttributes()
InitializeDefaultAttributes(ch) ==
    ApplyEffectToSelf(ApplyEffectToSelf(ch, DefaultPrimaryAttributes, 1),
                      DefaultSecondaryAttributes, 1)

\* AAuraCharacter::InitAbilityActorInfo; PS is the character's player state
\* or None, PC its AAuraPlayerController or None, hasHUD whether that
\* controller's HUD is an AAuraHUD.
InitAbilityActorInfo(ch, PS, PC, hasHUD) ==
    LET c0 == [ch EXCEPT !.trace = Append(@, "InitAbilityActorInfo")]
        c1 == IF PS # None
              THEN [c0 EXCEPT !.actorInfo = @ \cup {ASCOfPlayerState(PS)},
                              !.ASC = ASCOfPlayerState(PS),
                              !.AS = AttributeSetOfPlayerState(PS)]
              ELSE c0
        c2 == IF PS # None /\ PC # None /\ hasHUD
              THEN [c1 EXCEPT !.hud = InitOverlay(c1.hud, OverlayWidgetClass, PC, PS,
                                                  c1.ASC, c1.AS).hud]
              ELSE c1
    IN  InitializeDefaultAttributes(c2)

\* AAuraCharacterBase::AddCharacterAbilities: only with authority, the startup
\* abilities are granted to the character's component.
AddCharacterAbilities(ch) ==
    LET c0 == [ch EXCEPT !.trace = Append(@, "AddCharacterAbilities")] IN
    IF HasAuthority /\ ch.ASC # None
    THEN [c0 EXCEPT !.granted = @ \cup {<<ch.ASC, a>> : a \in StartupAbilities}]
    ELSE c0

PossessedBy_AddsAbilitiesFirst(ch, PS, PC, hasHUD) ==
    InitAbilityActorInfo(AddCharacterAbilities(ch), PS, PC, hasHUD)

\* AAuraCharacter::PossessedBy(NewController)
PossessedBy(ch, PS, PC, hasHUD) ==
    AddCharacterAbilities(InitAbilityActorInfo(ch, PS, PC, hasHUD))

\* AAuraCharacter::OnRep_PlayerState()
OnRep_PlayerState(ch, PS, PC, hasHUD) == InitAbilityActorInfo(ch, PS, PC, hasHUD)

\* The controller that possesses the character, when it is an
\* AAuraPlayerController.
CharacterController == "PC1"

CharacterInit ==
    /\ AbilitySystemComponent = None
    /\ AttributeSet = None
    /\ DefaultPrimaryAttributes \in {None, "GE_PrimaryAttributes"}
    /\ DefaultSecondaryAttributes \in {None, "GE_SecondaryAttributes"}
    /\ DefaultVitalAttributes \in {None, "GE_VitalAttributes"}
    /\ StartupAbilities \in {{}, {"GA_FireBolt"}}
    /\ HasAuthority \in BOOLEAN
    /\ selfEffects = <<>>
    /\ grantedAbilities = {}
    /\ actorInfoSet = {}
    /\ lastCharacter = [op |-> None]

CharacterIdle ==
    /\ CharacterInit
    /\ DefaultPrimaryAttributes = None
    /\ DefaultSecondaryAttributes = None
    /\ DefaultVitalAttributes = None
    /\ StartupAbilities = {}
    /\ HasAuthority

\* The handler's result becomes the state of the character, of the engine
\* objects it changed and of the HUD.
CharacterCommit(op, PS, ch) ==
    /\ Len(ch.effects) <= MaxSelfEffects
    /\ ch.hud.viewport <= MaxWidgets
    /\ AbilitySystemComponent' = ch.ASC
    /\ AttributeSet' = ch.AS
    /\ selfEffects' = ch.effects
    /\ grantedAbilities' = ch.granted
    /\ actorInfoSet' = ch.actorInfo
    /\ lastCharacter' = [op |-> op, PS |-> PS, trace |-> ch.trace,
                         defaults |-> ch.defaults, grantedBefore |-> grantedAbilities]
    /\ OverlayWidgetController' = ch.hud.Overlay
    /\ AttributeMenuWidgetController' = ch.hud.AttributeMenu
    /\ OverlayWidget' = ch.hud.Widget
    /\ objects' = ch.hud.objects
    /\ viewport' = ch.hud.viewport
    /\ UNCHANGED <<OverlayWidgetClass, lastHUD, creatorParams>>
    /\ UNCHANGED <<DefaultPrimaryAttributes, DefaultSecondaryAttributes,
                   DefaultVitalAttributes, StartupAbilities, HasAuthority>>
    /\ UNCHANGED <<attrVars, effectVars, controllerVars, ascVars>>

CallPossessedBy ==
    \E PS \in PlayerStates \cup {None}, PC \in {CharacterController, None},
       hasHUD \in BOOLEAN :
        CharacterCommit("PossessedBy", PS, PossessedBy(CharacterState, PS, PC, hasHUD))

CallOnRep_PlayerState ==
    \E PS \in PlayerStates \cup {None}, PC \in {CharacterController, None},
       hasHUD \in BOOLEAN :
        CharacterCommit("OnRep_PlayerState", PS,
                        OnRep_PlayerState(CharacterState, PS, PC, hasHUD))

-----------------------------------------------------------------------------
(***************************************************************************)
(* AAuraPlayerController: PlayerTick (CursorTrace, AutoRun) and the three  *)
(* ability-input handlers.  Times are in quarters of a second, locations   *)
(* are points of a line.                                                   *)
(***************************************************************************)

\* ShortPressThreshold = 0.5f, in quarters of a second.
ShortPressThreshold == 2
\* AutoRunAcceptanceRadius = 50.0f
AutoRunAcceptanceRadius == 50
\* Longest frame time of the model, in quarters of a second.
MaxDeltaSeconds == 1
\* Largest FollowTime of the model, in quarters of a second.
MaxFollowTime == 3

InputTag_LMB == "InputTag.LMB"
InputTags == {InputTag_LMB, "InputTag.RMB"}

\* Locations: the origin, one at the acceptance radius from it, one just
\* beyond.
Points == {0, AutoRunAcceptanceRadius, AutoRunAcceptanceRadius + 1}
Distance(p, q) == IF p < q THEN q - p ELSE p - q

\* The actors the cursor can be over: two enemies and one actor that does not
\* implement IEnemyInterface.
CursorActors == {"Enemy1", "Enemy2", "Rock"}
\* Whether the TScriptInterface<IEnemyInterface> made from the actor holds an
\* interface: what `if (LastActor)` and `if (ThisActor)` test.
IsEnemy(Actor) == Actor \in {"Enemy1", "Enemy2"}
\* Where the cursor's trace ends: on an actor, which stands beyond the
\* acceptance radius from the origin, or on the floor at the origin.
ActorLocation == AutoRunAcceptanceRadius + 1
FloorLocation == 0

\* What GetHitResultUnderCursor can write to CursorHit: no blocking hit, a
\* blocking hit on an actor, or a blocking hit on geometry without an actor.
NoHit == [bBlockingHit |-> FALSE, Actor |-> None, ImpactPoint |-> 0]
HitResults ==
    {NoHit}
    \cup {[bBlockingHit |-> TRUE, Actor |-> a, ImpactPoint |-> ActorLocation] :
             a \in CursorActors}
    \cup {[bBlockingHit |-> TRUE, Actor |-> None, ImpactPoint |-> FloorLocation]}

\* What FindPathToLocationSynchronously can return for a path that starts at
\* PathStart: no path object, a path object without points (no route was
\* found), or a route from PathStart to the reachable point nearest to the
\* destination.
NavPaths(PathStart) ==
    {[found |-> FALSE, PathPoints |-> <<>>]}
    \cup {[found |-> TRUE, PathPoints |-> <<>>]}
    \cup {[found |-> TRUE, PathPoints |-> <<PathStart, p>>] :
             p \in {FloorLocation, ActorLocation}}

\* The spline component is a default subobject that is attached to nothing:
\* its own location is the world origin.
SplineOrigin == 0

\* SplineComponent->FindLocationClosestToWorldLocation(WorldLocation, World):
\* on the line, the point of the stretch the spline points span that is
\* closest to WorldLocation; a spline without points evaluates to its own
\* location.
FindLocationClosestToWorldLocation(SplinePts, WorldLocation) ==
    IF SplinePts = <<>> THEN SplineOrigin
    ELSE LET pts == {SplinePts[i] : i \in DOMAIN SplinePts}
             lo == CHOOSE x \in pts : \A y \in pts : x <= y
             hi == CHOOSE x \in pts : \A y \in pts : y <= x
         IN  IF WorldLocation < lo THEN lo
             ELSE IF WorldLocation > hi THEN hi
             ELSE WorldLocation

\* The value a controller handler works on.
ControllerState ==
    [ThisActor |-> ThisActor, LastActor |-> LastActor, CursorHit |-> CursorHit,
     bTargeting |-> bTargeting, bAutoRunning |-> bAutoRunning, FollowTime |-> FollowTime,
     CachedDestination |-> CachedDestination, SplinePoints |-> SplinePoints,
     ASC |-> AuraAbilitySystemComponent, highlighted |-> highlighted,
     calls |-> <<>>]

CursorTrace_HighlightsAlways(c, hit) ==
    LET c0 == [c EXCEPT !.CursorHit = hit] IN
    IF hit.bBlockingHit
    THEN LET c1 == [c0 EXCEPT !.LastActor = c.ThisActor, !.ThisActor = hit.Actor]
             c2 == IF IsEnemy(c1.LastActor)
                   THEN [c1 EXCEPT !.highlighted = @ \ {c1.LastActor},
                                   !.calls = Append(@, <<"UnHighlightActor", c1.LastActor>>)]
                   ELSE c1
         IN  IF IsEnemy(c2.ThisActor)
             THEN [c2 EXCEPT !.highlighted = @ \cup {c2.ThisActor},
                             !.calls = Append(@, <<"HighlightActor", c2.ThisActor>>)]
             ELSE c2
    ELSE c0

\* CursorTrace(); `hit` is what GetHitResultUnderCursor writes to CursorHit.
CursorTrace(c, hit) ==
    LET c0 == [c EXCEPT !.CursorHit = hit] IN
    IF hit.bBlockingHit
    THEN LET c1 == [c0 EXCEPT !.LastActor = c.ThisActor, !.ThisActor = hit.Actor] IN
         IF c1.LastActor # c1.ThisActor
         THEN LET c2 == IF IsEnemy(c1.LastActor)
                        THEN [c1 EXCEPT !.highlighted = @ \ {c1.LastActor},
                                        !.calls = Append(@, <<"UnHighlightActor",
                                                              c1.LastActor>>)]
                        ELSE c1
              IN  IF IsEnemy(c2.ThisActor)
                  THEN [c2 EXCEPT !.highlighted = @ \cup {c2.ThisActor},
                                  !.calls = Append(@, <<"HighlightActor", c2.ThisActor>>)]
                  ELSE c2
         ELSE c1
    ELSE c0

\* AutoRun(); PawnLocation is ControlledPawn->GetActorLocation().
AutoRun(c, PawnLocation) ==
    IF ~c.bAutoRunning THEN c
    ELSE IF Pawn # None
         THEN LET LocationOnSpline ==
                      FindLocationClosestToWorldLocation(c.SplinePoints, PawnLocation)
                  DistanceToDestination == Distance(LocationOnSpline, c.CachedDestination)
                  c1 == [c EXCEPT !.calls = Append(@, <<"AddMovementInput", Pawn>>)]
              IN  IF DistanceToDestination <= AutoRunAcceptanceRadius
                  THEN [c1 EXCEPT !.bAutoRunning = FALSE]
                  ELSE c1
         ELSE c

\* PlayerTick(DeltaTime)
PlayerTick(c, hit, PawnLocation) == AutoRun(CursorTrace(c, hit), PawnLocation)

\* GetAuraAbilitySystemComponent(): the cached component, looked up on the pawn
\* when none is cached.
GetAuraAbilitySystemComponent(c, pawnASC) ==
    IF c.ASC = None THEN [c EXCEPT !.ASC = pawnASC] ELSE c

\* `GetAuraAbilitySystemComponent()->fn(InputTag)` under its null test.
ForwardToASC(c, fn, InputTag, pawnASC) ==
    LET c1 == GetAuraAbilitySystemComponent(c, pawnASC) IN
    IF c1.ASC # None THEN [c1 EXCEPT !.calls = Append(@, <<fn, InputTag>>)] ELSE c1

\* AbilityInputTagPressed(InputTag)
AbilityInputTagPressed(c, InputTag) ==
    IF InputTag = InputTag_LMB
    THEN [c EXCEPT !.bTargeting = IsEnemy(c.ThisActor), !.bAutoRunning = FALSE]
    ELSE c

\* AbilityInputTagReleased(InputTag); NavPath is the engine's answer to the
\* path query from the pawn's location, used only on the short-press branch.
AbilityInputTagReleased(c, InputTag, NavPath, pawnASC) ==
    IF InputTag # InputTag_LMB
    THEN ForwardToASC(c, "AbilityInputTagReleased", InputTag, pawnASC)
    ELSE IF c.bTargeting
    THEN ForwardToASC(c, "AbilityInputTagReleased", InputTag, pawnASC)
    ELSE IF c.FollowTime <= ShortPressThreshold /\ Pawn # None
    THEN LET c1 == IF NavPath.found
                   THEN [c EXCEPT !.SplinePoints = NavPath.PathPoints,
                                  !.CachedDestination =
                                      IF NavPath.PathPoints = <<>> THEN @
                                      ELSE NavPath.PathPoints[Len(NavPath.PathPoints)],
                                  !.bAutoRunning = TRUE]
                   ELSE c
         IN  [c1 EXCEPT !.FollowTime = 0, !.bTargeting = FALSE]
    ELSE c

\* AbilityInputTagHeld(InputTag); DeltaSeconds is the frame time.
AbilityInputTagHeld(c, InputTag, DeltaSeconds, pawnASC) ==
    IF InputTag # InputTag_LMB
    THEN ForwardToASC(c, "AbilityInputTagHeld", InputTag, pawnASC)
    ELSE IF c.bTargeting
    THEN ForwardToASC(c, "AbilityInputTagHeld", InputTag, pawnASC)
    ELSE LET c1 == [c EXCEPT !.FollowTime = @ + DeltaSeconds]
             c2 == IF c1.CursorHit.bBlockingHit
                   THEN [c1 EXCEPT !.CachedDestination = c1.CursorHit.ImpactPoint]
                   ELSE c1
         IN  IF Pawn # None
             THEN [c2 EXCEPT !.calls = Append(@, <<"AddMovementInput", Pawn>>)]
             ELSE c2

ControllerInit ==
    /\ ThisActor = None
    /\ LastActor = None
    /\ CursorHit = NoHit
    /\ bTargeting = FALSE
    /\ bAutoRunning = FALSE
    /\ FollowTime = 0
    /\ CachedDestination = 0
    /\ SplinePoints = <<>>
    /\ Pawn \in {None, "Pawn"}
    /\ AuraAbilitySystemComponent = None
    /\ highlighted = {}
    /\ lmbDown = FALSE
    /\ pressHeld = 0
    /\ lastController = [op |-> None]

ControllerIdle == ControllerInit /\ Pawn = None

\* The component GetAbilitySystemComponent finds on the pawn.
PawnASCs == IF Pawn = None THEN {None} ELSE {None, "ASC1"}

\* The handler's result becomes the controller's state; `obs` is what is
\* recorded of the call besides the calls it made.
ControllerCommit(obs, c) ==
    /\ c.FollowTime <= MaxFollowTime
    /\ ThisActor' = c.ThisActor
    /\ LastActor' = c.LastActor
    /\ CursorHit' = c.CursorHit
    /\ bTargeting' = c.bTargeting
    /\ bAutoRunning' = c.bAutoRunning
    /\ FollowTime' = c.FollowTime
    /\ CachedDestination' = c.CachedDestination
    /\ SplinePoints' = c.SplinePoints
    /\ AuraAbilitySystemComponent' = c.ASC
    /\ highlighted' = c.highlighted
    /\ lastController' = [obs EXCEPT !.calls = c.calls]
    /\ UNCHANGED Pawn
    /\ UNCHANGED <<attrVars, effectVars, hudVars, characterVars, ascVars>>

\* The pawn is moved by the engine between the calls: each call finds it at
\* some location.  The location is read only while auto-running with a pawn.
CallPlayerTick ==
    \E hit \in HitResults, PawnLocation \in Points :
        /\ (~bAutoRunning \/ Pawn = None) => PawnLocation = 0
        /\ ControllerCommit(
              [op |-> "PlayerTick", calls |-> <<>>, wasThisActor |-> ThisActor,
               wasAutoRunning |-> bAutoRunning,
               distance |-> IF bAutoRunning /\ Pawn # None
                            THEN Distance(FindLocationClosestToWorldLocation(
                                              SplinePoints, PawnLocation),
                                          CachedDestination)
                            ELSE 0,
               pawnDistance |-> IF bAutoRunning /\ Pawn # None
                                THEN Distance(PawnLocation, CachedDestination) ELSE 0],
              PlayerTick(ControllerState, hit, PawnLocation))
        /\ UNCHANGED <<lmbDown, pressHeld>>

\* The engine's events of one input action come in the order Started,
\* Triggered (once per frame while the action is down), Completed.  The
\* model keeps that order for the left mouse button.
CanStart(InputTag) == InputTag = InputTag_LMB => ~lmbDown
IsDown(InputTag) == InputTag = InputTag_LMB => lmbDown

CallAbilityInputTagPressed ==
    \E InputTag \in InputTags :
        /\ CanStart(InputTag)
        /\ ControllerCommit([op |-> "AbilityInputTagPressed", tag |-> InputTag,
                             calls |-> <<>>],
                            AbilityInputTagPressed(ControllerState, InputTag))
        /\ lmbDown' = (lmbDown \/ InputTag = InputTag_LMB)
        /\ pressHeld' = IF InputTag = InputTag_LMB THEN 0 ELSE pressHeld

CallAbilityInputTagHeld ==
    \E InputTag \in InputTags, DeltaSeconds \in 1..MaxDeltaSeconds, pawnASC \in PawnASCs :
        /\ IsDown(InputTag)
        /\ InputTag # InputTag_LMB => DeltaSeconds = 1
        /\ pressHeld + DeltaSeconds <= MaxFollowTime
        /\ ControllerCommit([op |-> "AbilityInputTagHeld", tag |-> InputTag,
                             calls |-> <<>>],
                            AbilityInputTagHeld(ControllerState, InputTag, DeltaSeconds,
                                                pawnASC))
        /\ pressHeld' = IF InputTag = InputTag_LMB THEN pressHeld + DeltaSeconds
                        ELSE pressHeld
        /\ UNCHANGED lmbDown

CallAbilityInputTagReleased ==
    \E InputTag \in InputTags, PawnLocation \in Points, pawnASC \in PawnASCs :
      \E NavPath \in NavPaths(PawnLocation) :
        /\ IsDown(InputTag)
        /\ (InputTag # InputTag_LMB \/ bTargeting \/ Pawn = None) => ~NavPath.found
        /\ NavPath.PathPoints = <<>> => PawnLocation = 0
        /\ ControllerCommit(
              IF InputTag = InputTag_LMB
              THEN [op |-> "AbilityInputTagReleased", tag |-> InputTag, calls |-> <<>>,
                    wasTargeting |-> bTargeting, held |-> pressHeld,
                    pathFound |-> NavPath.found]
              ELSE [op |-> "AbilityInputTagReleased", tag |-> InputTag, calls |-> <<>>],
              AbilityInputTagReleased(ControllerState, InputTag, NavPath, pawnASC))
        /\ lmbDown' = (lmbDown /\ InputTag # InputTag_LMB)
        /\ UNCHANGED pressHeld

-----------------------------------------------------------------------------
(***************************************************************************)
(* UAuraAbilitySystemComponent: AddCharacterAbilities, AbilityInputTagHeld *)
(* and AbilityInputTagReleased, as their declarations document them.       *)
(***************************************************************************)

\* Largest number of ability specs the component holds in the model.
MaxAbilities == 3

\* The ability classes and the StartupInputTag of each; GA_Passive has none.
AbilityClasses == {"GA_FireBolt", "GA_Summon", "GA_Passive"}
StartupInputTag(AbilityClass) ==
    CASE AbilityClass = "GA_FireBolt" -> InputTag_LMB
      [] AbilityClass = "GA_Summon" -> "InputTag.RMB"
      [] OTHER -> None

\* The tags a caller can pass: the input tags and the invalid (empty) tag.
HeldTags == InputTags \cup {None}
IsValidTag(Tag) == Tag # None

\* Sequences of ability classes of the given lengths.
AbilityLists(MinLen, MaxLen) ==
    UNION {[1..n -> AbilityClasses] : n \in MinLen..MaxLen}

\* AddCharacterAbilities(StartupAbilities): one spec per class, tagged with
\* the class's startup input tag when it has one, granted in order.
AuraASC_AddCharacterAbilities(Specs, Abilities) ==
    Specs \o [i \in DOMAIN Abilities |->
                [Ability |-> Abilities[i], DynamicAbilityTag |-> StartupInputTag(Abilities[i]),
                 active |-> FALSE]]

\* Whether the spec's dynamic tags hold the tag exactly.
HasTagExact(AbilitySpec, Tag) == IsValidTag(Tag) /\ AbilitySpec.DynamicAbilityTag = Tag

\* The handles (positions) a call of AbilityInputTagHeld passes to
\* TryActivateAbility, in the order of the activatable abilities.
AuraASC_TryActivated_AlsoActive(Specs, InInputTag) ==
    IF ~IsValidTag(InInputTag) THEN <<>>
    ELSE LET RECURSIVE walk(_)
             walk(i) == IF i > Len(Specs) THEN <<>>
                        ELSE (IF HasTagExact(Specs[i], InInputTag) THEN <<i>> ELSE <<>>)
                             \o walk(i + 1)
         IN  walk(1)

AuraASC_TryActivated(Specs, InInputTag) ==
    IF ~IsValidTag(InInputTag) THEN <<>>
    ELSE LET RECURSIVE walk(_)
             walk(i) == IF i > Len(Specs) THEN <<>>
                        ELSE (IF HasTagExact(Specs[i], InInputTag) /\ ~Specs[i].active
                              THEN <<i>> ELSE <<>>)
                             \o walk(i + 1)
         IN  walk(1)

\* AbilityInputTagHeld(InInputTag); `activates` are the handles for which
\* TryActivateAbility succeeds.
AuraASC_AbilityInputTagHeld(Specs, InInputTag, activates) ==
    LET tried == AuraASC_TryActivated(Specs, InInputTag)
        triedSet == {tried[k] : k \in DOMAIN tried}
    IN  [Specs |-> [i \in DOMAIN Specs |->
                       IF i \in triedSet /\ i \in activates
                       THEN [Specs[i] EXCEPT !.active = TRUE] ELSE Specs[i]],
         tried |-> tried]

\* AbilityInputTagReleased(InInputTag): the release is passed on to the
\* abilities whose tag matches; no spec changes.
AuraASC_AbilityInputTagReleased(Specs, InInputTag) ==
    [Specs |-> Specs,
     released |-> IF ~IsValidTag(InInputTag) THEN {}
                  ELSE {i \in DOMAIN Specs : HasTagExact(Specs[i], InInputTag)}]

ASCInit ==
    /\ ActivatableAbilities = <<>>
    /\ lastASC = [op |-> None]

CallAuraASC_AddCharacterAbilities ==
    \E Abilities \in AbilityLists(1, 2) :
        /\ Len(ActivatableAbilities) + Len(Abilities) <= MaxAbilities
        /\ ActivatableAbilities' =
               AuraASC_AddCharacterAbilities(ActivatableAbilities, Abilities)
        /\ lastASC' = [op |-> "AddCharacterAbilities"]
        /\ UNCHANGED <<attrVars, effectVars, hudVars, characterVars, controllerVars>>

CallAuraASC_AbilityInputTagHeld ==
    \E InInputTag \in HeldTags, activates \in SUBSET (1..MaxAbilities) :
        LET r == AuraASC_AbilityInputTagHeld(ActivatableAbilities, InInputTag, activates) IN
        /\ activates \subseteq {r.tried[k] : k \in DOMAIN r.tried}
        /\ ActivatableAbilities' = r.Specs
        /\ lastASC' = [op |-> "AbilityInputTagHeld", tag |-> InInputTag,
                       before |-> ActivatableAbilities, tried |-> r.tried]
        /\ UNCHANGED <<attrVars, effectVars, hudVars, characterVars, controllerVars>>

CallAuraASC_AbilityInputTagReleased ==
    \E InInputTag \in HeldTags :
        LET r == AuraASC_AbilityInputTagReleased(ActivatableAbilities, InInputTag) IN
        /\ ActivatableAbilities' = r.Specs
        /\ lastASC' = [op |-> "AbilityInputTagReleased", tag |-> InInputTag,
                       released |-> r.released]
        /\ UNCHANGED <<attrVars, effectVars, hudVars, characterVars, controllerVars>>

\* The engine ends an active ability.
EndAbility ==
    \E i \in DOMAIN ActivatableAbilities :
        /\ ActivatableAbilities[i].active
        /\ ActivatableAbilities' = [ActivatableAbilities EXCEPT ![i].active = FALSE]
        /\ lastASC' = [op |-> "EndAbility"]
        /\ UNCHANGED <<attrVars, effectVars, hudVars, characterVars, controllerVars>>

-----------------------------------------------------------------------------
(***************************************************************************)
(* Single effect-application requests: ApplyEffectToTarget on the effect   *)
(* actor (a BlueprintCallable function) and ApplyEffectToSelf on the       *)
(* character, called with every class and on every target.                 *)
(***************************************************************************)

\* The effect actor before any overlap, with no effect classes applied by
\* policy, under either removal policy.
EffectRequestInit ==
    /\ policyOf = [s \in Slots |-> "DoNotApply"]
    /\ classOf = [s \in Slots |-> None]
    /\ InfiniteEffectRemovalPolicy \in RemovalPolicies
    /\ ActiveEffectHandles = EmptyMap
    /\ nextHandle = 1
    /\ lastOverlap = [op |-> None]
    /\ everRequested = {}
    /\ everRemoved = FALSE
    /\ everAdded = {}

\* The character without default attribute effects, before its ability
\* actor info was initialised (no component) or after OnRep_PlayerState
\* initialised it from a player state, with no AAuraHUD.
CharacterRequestInit ==
    /\ DefaultPrimaryAttributes = None
    /\ DefaultSecondaryAttributes = None
    /\ DefaultVitalAttributes = None
    /\ StartupAbilities = {}
    /\ HasAuthority = TRUE
    /\ selfEffects = <<>>
    /\ grantedAbilities = {}
    /\ \/ /\ AbilitySystemComponent = None
          /\ AttributeSet = None
          /\ actorInfoSet = {}
          /\ lastCharacter = [op |-> None]
       \/ \E PS \in PlayerStates :
            /\ AbilitySystemComponent = ASCOfPlayerState(PS)
            /\ AttributeSet = AttributeSetOfPlayerState(PS)
            /\ actorInfoSet = {ASCOfPlayerState(PS)}
            /\ lastCharacter = [op |-> "OnRep_PlayerState", PS |-> PS,
                                trace |-> <<"InitAbilityActorInfo">>,
                                defaults |-> <<>>, grantedBefore |-> {}]

\* The gameplay-effect classes a caller of ApplyEffectToSelf can pass.
SelfEffectClasses == {None, "GE_VitalAttributes"}

CallApplyEffectToTarget ==
    \E InTargetActor \in Actors, InGameplayEffectClass \in EffectClasses,
       applies \in BOOLEAN :
        LET st == ApplyEffectToTarget(HandlerStart, InTargetActor, InGameplayEffectClass,
                                      applies)
        IN  /\ (\/ InGameplayEffectClass \in {None, "Instant"}
                \/ GetAbilitySystemComponent(InTargetActor) = None) => applies
            /\ st.next <= MaxHandles + 1
            /\ ActiveEffectHandles' = st.handles
            /\ nextHandle' = st.next
            /\ lastOverlap' = [op |-> "ApplyEffectToTarget", target |-> InTargetActor,
                               class |-> InGameplayEffectClass, applied |-> st.applied,
                               before |-> ActiveEffectHandles]
            /\ everAdded' = everAdded \cup {<<a[1], a[3]>> : a \in
                                {b \in st.applied :
                                    b[2] = "Infinite" /\ b[3] # InvalidHandle}}
            /\ UNCHANGED <<policyOf, classOf, InfiniteEffectRemovalPolicy, everRequested,
                           everRemoved>>
            /\ UNCHANGED <<attrVars, hudVars, characterVars, controllerVars, ascVars>>

CallApplyEffectToSelf ==
    \E GameplayEffectClass \in SelfEffectClasses :
        LET ch == ApplyEffectToSelf(CharacterState, GameplayEffectClass, 1)
        IN  /\ Len(ch.effects) <= MaxSelfEffects
            /\ selfEffects' = ch.effects
            /\ lastCharacter' = [op |-> "ApplyEffectToSelf", class |-> GameplayEffectClass,
                                 applied |-> ch.defaults, before |-> selfEffects]
            /\ UNCHANGED <<AbilitySystemComponent, AttributeSet, DefaultPrimaryAttributes,
                           DefaultSecondaryAttributes, DefaultVitalAttributes,
                           StartupAbilities, HasAuthority, grantedAbilities, actorInfoSet>>
            /\ UNCHANGED <<attrVars, effectVars, hudVars, controllerVars, ascVars>>

-----------------------------------------------------------------------------
(***************************************************************************)
(* Specifications.                                                         *)
(***************************************************************************)

InitAttributeSet ==
    AttrInit /\ EffectIdle /\ HUDIdle /\ CharacterIdle /\ ControllerIdle /\ ASCInit
AttrNext == AttributeChange \/ GameplayEffectExecute
SpecAttributeSet == InitAttributeSet /\ [][AttrNext]_vars

InitEffectActor ==
    EffectInit /\ AttrIdle /\ HUDIdle /\ CharacterIdle /\ ControllerIdle /\ ASCInit
EffectNext == OnOverlap \/ OnEndOverlap
SpecEffectActor == InitEffectActor /\ [][EffectNext]_vars

InitHUD ==
    HUDInit /\ AttrIdle /\ EffectIdle /\ CharacterIdle /\ ControllerIdle /\ ASCInit
HUDNext ==
    CallGetOverlayWidgetController \/ CallGetAttributeMenuWidgetController \/ CallInitOverlay
SpecHUD == InitHUD /\ [][HUDNext]_vars

InitCharacter ==
    CharacterInit /\ HUDInit /\ AttrIdle /\ EffectIdle /\ ControllerIdle /\ ASCInit
CharacterNext == CallPossessedBy \/ CallOnRep_PlayerState
SpecCharacter == InitCharacter /\ [][CharacterNext]_vars

InitController ==
    ControllerInit /\ AttrIdle /\ EffectIdle /\ HUDIdle /\ CharacterIdle /\ ASCInit
ControllerNext ==
    CallPlayerTick \/ CallAbilityInputTagPressed \/ CallAbilityInputTagHeld
        \/ CallAbilityInputTagReleased
SpecController == InitController /\ [][ControllerNext]_vars

InitAbilitySystem ==
    ASCInit /\ AttrIdle /\ EffectIdle /\ HUDIdle /\ CharacterIdle /\ ControllerIdle
AbilitySystemNext ==
    CallAuraASC_AddCharacterAbilities \/ CallAuraASC_AbilityInputTagHeld
        \/ CallAuraASC_AbilityInputTagReleased \/ EndAbility
SpecAbilitySystem == InitAbilitySystem /\ [][AbilitySystemNext]_vars

InitEffectRequests ==
    EffectRequestInit /\ CharacterRequestInit /\ AttrIdle /\ HUDIdle /\ ControllerIdle
        /\ ASCInit
EffectRequestsNext == CallApplyEffectToTarget \/ CallApplyEffectToSelf
SpecEffectRequests == InitEffectRequests /\ [][EffectRequestsNext]_vars

-----------------------------------------------------------------------------
(***************************************************************************)
(* Properties of the attribute set.                                        *)
(***************************************************************************)

\* C1: PreAttributeChange clamps the proposed value: for Health the outgoing
\* NewValue lies in [0, MaxHealth] and for Mana in [0, MaxMana], whatever the
\* incoming NewValue is.
C1_PreAttributeChangeClamps ==
    lastAttr.op = "PreAttributeChange" =>
        /\ lastAttr.attr = "Health" => (0 <= lastAttr.out /\ lastAttr.out <= MaxHealth)
        /\ lastAttr.attr = "Mana" => (0 <= lastAttr.out /\ lastAttr.out <= MaxMana)

\* A Health value above MaxHealth was proposed while MaxMana is larger still.
C1_Witness ==
    /\ lastAttr.op = "PreAttributeChange"
    /\ lastAttr.attr = "Health"
    /\ lastAttr.in > MaxHealth
    /\ MaxMana > MaxHealth

\* C2: after any sequence of gameplay-effect executions on Health and Mana the
\* stored values satisfy 0 <= Health <= MaxHealth and 0 <= Mana <= MaxMana.
C2_VitalsWithinBounds ==
    /\ 0 <= Health /\ Health <= MaxHealth
    /\ 0 <= Mana /\ Mana <= MaxMana

\* An effect drove the raw Health below zero and the hook stored zero.
C2_Witness ==
    /\ lastAttr.op = "PostGameplayEffectExecute"
    /\ lastAttr.attr = "Health"
    /\ lastAttr.in < 0
    /\ Health = 0

-----------------------------------------------------------------------------
(***************************************************************************)
(* Properties of the effect actor.                                         *)
(***************************************************************************)

\* C3: OnOverlap requests application of exactly the effects whose policy is
\* ApplyOnOverlap, OnEndOverlap of exactly those whose policy is
\* ApplyOnEndOverlap, and an effect whose policy is DoNotApply is never
\* requested by any sequence of the two handlers.
C3_AppliedByPolicy ==
    /\ lastOverlap.op = "OnOverlap" =>
          \A s \in Slots : s \in lastOverlap.requests <=> policyOf[s] = "ApplyOnOverlap"
    /\ lastOverlap.op = "OnEndOverlap" =>
          \A s \in Slots : s \in lastOverlap.requests <=> policyOf[s] = "ApplyOnEndOverlap"
    /\ \A s \in Slots : policyOf[s] = "DoNotApply" => s \notin everRequested

\* OnOverlap applied the duration effect while the instant effect is not
\* applied on overlap.
C3_Witness ==
    /\ lastOverlap.op = "OnOverlap"
    /\ "Duration" \in lastOverlap.requests
    /\ policyOf["Instant"] = "DoNotApply"
    /\ \E a \in lastOverlap.applied : a[2] = "HasDuration"

\* C4: with RemoveOnEndOverlap, after OnEndOverlap(T) for a target with a
\* valid component, removal was requested on that component for every handle
\* the map associated with it (on entry, or added by the handler itself), and
\* the map holds no entry for that component.
C4_RemovedOnEndOverlap ==
    (/\ InfiniteEffectRemovalPolicy = "RemoveOnEndOverlap"
     /\ lastOverlap.op = "OnEndOverlap"
     /\ GetAbilitySystemComponent(lastOverlap.target) # None) =>
        LET TargetASC == GetAbilitySystemComponent(lastOverlap.target) IN
        /\ \A h \in DOMAIN lastOverlap.before :
              lastOverlap.before[h] = TargetASC => <<TargetASC, h>> \in lastOverlap.removed
        /\ \A h \in DOMAIN lastOverlap.tracked :
              lastOverlap.tracked[h] = TargetASC => <<TargetASC, h>> \in lastOverlap.removed
        /\ \A h \in DOMAIN ActiveEffectHandles : ActiveEffectHandles[h] # TargetASC

\* OnEndOverlap requested removal of an infinite effect that an earlier
\* handler had added to the target, while the other target's effect stays
\* tracked.
C4_Witness ==
    /\ InfiniteEffectRemovalPolicy = "RemoveOnEndOverlap"
    /\ lastOverlap.op = "OnEndOverlap"
    /\ \E r \in lastOverlap.removed :
          /\ r[2] # InvalidHandle
          /\ r[2] \in DOMAIN lastOverlap.before
    /\ ActiveEffectHandles # EmptyMap

\* C5: with DoNotRemove the actor never requests removal of an active effect
\* and ActiveEffectHandles stays empty.
C5_DoNotRemoveKeepsEffects ==
    InfiniteEffectRemovalPolicy = "DoNotRemove" =>
        /\ ~everRemoved
        /\ ActiveEffectHandles = EmptyMap

\* The overlap with a target ended after this actor had added an infinite
\* effect to it.
C5_Witness ==
    /\ InfiniteEffectRemovalPolicy = "DoNotRemove"
    /\ lastOverlap.op = "OnEndOverlap"
    /\ \E e \in everAdded : e[1] = GetAbilitySystemComponent(lastOverlap.target)

-----------------------------------------------------------------------------
(***************************************************************************)
(* Properties of the HUD.                                                  *)
(***************************************************************************)

\* C9: each getter creates its controller at most once and returns that
\* instance on every call, so every controller instance has had
\* BindCallbacksToDependencies run on it exactly once.
C9_ControllerCreatedAndBoundOnce ==
    /\ \A id \in DOMAIN objects : Len(objects[id].binds) = 1
    /\ \A f \in {"Overlay", "AttributeMenu"} :
          Cardinality({id \in DOMAIN objects : objects[id].kind = f}) <= 1
    /\ lastHUD.op = "GetOverlayWidgetController" =>
          (lastHUD.ret # NullObject /\ lastHUD.ret = OverlayWidgetController)
    /\ lastHUD.op = "GetAttributeMenuWidgetController" =>
          (lastHUD.ret # NullObject /\ lastHUD.ret = AttributeMenuWidgetController)

\* A later call of the attribute-menu getter, with other parameters than the
\* controller holds, after both controllers were created.
C9_Witness ==
    /\ lastHUD.op = "GetAttributeMenuWidgetController"
    /\ lastHUD.params # objects[lastHUD.ret].params
    /\ OverlayWidgetController # NullObject

-----------------------------------------------------------------------------
(***************************************************************************)
(* Properties of the character.                                            *)
(***************************************************************************)

\* C6: InitializeDefaultAttributes applies three default attribute effects to
\* the character itself, the primary, the secondary and the vital one, each
\* at level 1; here for a character whose component and three effect classes
\* are valid.
C6_AppliesThreeDefaultEffects ==
    (/\ lastCharacter.op # None
     /\ AbilitySystemComponent # None
     /\ DefaultPrimaryAttributes # None
     /\ DefaultSecondaryAttributes # None
     /\ DefaultVitalAttributes # None) =>
        lastCharacter.defaults =
            << [effect |-> DefaultPrimaryAttributes, level |-> 1,
                target |-> AbilitySystemComponent],
               [effect |-> DefaultSecondaryAttributes, level |-> 1,
                target |-> AbilitySystemComponent],
               [effect |-> DefaultVitalAttributes, level |-> 1,
                target |-> AbilitySystemComponent] >>

-----------------------------------------------------------------------------
(***************************************************************************)
(* Properties of the player controller.                                    *)
(***************************************************************************)

\* C7: a left-mouse press that is held for no longer than
\* ShortPressThreshold and released while not targeting is treated as a short
\* press, so auto-run is started when a pawn and a path exist, however long
\* any earlier press was held.
C7_ShortPressStartsAutoRun ==
    (/\ lastController.op = "AbilityInputTagReleased"
     /\ lastController.tag = InputTag_LMB
     /\ ~lastController.wasTargeting
     /\ lastController.held <= ShortPressThreshold
     /\ Pawn # None
     /\ lastController.pathFound) => bAutoRunning

\* The highlight calls among the calls a handler made.
HighlightCalls(calls) ==
    SelectSeq(calls, LAMBDA call : call[1] \in {"HighlightActor", "UnHighlightActor"})

\* C8: on a blocking hit, when the actor under the cursor differs from the one
\* the previous trace recorded, CursorTrace calls UnHighlightActor on the
\* previous actor if it is an enemy and HighlightActor on the present actor if
\* it is an enemy; when the actor is the same it calls neither.
C8_CursorTraceHighlights ==
    (lastController.op = "PlayerTick" /\ CursorHit.bBlockingHit) =>
        LET prev == lastController.wasThisActor
            cur == CursorHit.Actor
        IN  HighlightCalls(lastController.calls) =
                IF prev # cur
                THEN (IF IsEnemy(prev) THEN << <<"UnHighlightActor", prev>> >> ELSE <<>>)
                     \o (IF IsEnemy(cur) THEN << <<"HighlightActor", cur>> >> ELSE <<>>)
                ELSE <<>>

\* The cursor moved from one enemy to the other.
C8_Witness ==
    /\ lastController.op = "PlayerTick"
    /\ CursorHit.bBlockingHit
    /\ IsEnemy(lastController.wasThisActor)
    /\ IsEnemy(CursorHit.Actor)
    /\ lastController.wasThisActor # CursorHit.Actor
    /\ Len(lastController.calls) >= 2

\* The cursor stayed on the same enemy.
C8_WitnessSameActor ==
    /\ lastController.op = "PlayerTick"
    /\ CursorHit.bBlockingHit
    /\ IsEnemy(CursorHit.Actor)
    /\ lastController.wasThisActor = CursorHit.Actor

\* C11: when AutoRun runs while auto-running with a pawn and the pawn's
\* distance to CachedDestination is at most AutoRunAcceptanceRadius,
\* bAutoRunning becomes false; and when AutoRun runs while not auto-running
\* it leaves bAutoRunning false and gives the pawn no movement input.
C11_AutoRunStopsAtDestination ==
    lastController.op = "PlayerTick" =>
        /\ (/\ lastController.wasAutoRunning
            /\ Pawn # None
            /\ lastController.pawnDistance <= AutoRunAcceptanceRadius) => ~bAutoRunning
        /\ ~lastController.wasAutoRunning =>
              /\ ~bAutoRunning
              /\ \A i \in DOMAIN lastController.calls :
                    lastController.calls[i][1] # "AddMovementInput"

\* C12: PossessedBy initialises the ability actor info and then adds the
\* character abilities, in that order; abilities are granted only when the
\* character has authority; and OnRep_PlayerState initialises the ability
\* actor info and grants nothing.
C12_AbilitiesGrantedOnServerOnly ==
    /\ lastCharacter.op = "PossessedBy" =>
          lastCharacter.trace = <<"InitAbilityActorInfo", "AddCharacterAbilities">>
    /\ lastCharacter.op # None =>
          (grantedAbilities # lastCharacter.grantedBefore => HasAuthority)
    /\ ~HasAuthority => grantedAbilities = {}
    /\ lastCharacter.op = "OnRep_PlayerState" =>
          /\ lastCharacter.trace = <<"InitAbilityActorInfo">>
          /\ grantedAbilities = lastCharacter.grantedBefore

\* The first possession of a character with authority and a player state
\* granted its startup abilities to the component the same call had set.
C12_Witness ==
    /\ lastCharacter.op = "PossessedBy"
    /\ HasAuthority
    /\ lastCharacter.grantedBefore = {}
    /\ grantedAbilities # {}
    /\ \A g \in grantedAbilities : g[1] = AbilitySystemComponent

-----------------------------------------------------------------------------
(***************************************************************************)
(* Properties of the ability system component.                             *)
(***************************************************************************)

\* C13: AbilityInputTagHeld(tag) does nothing when the tag is invalid;
\* otherwise it attempts to activate, once each, exactly the activatable
\* abilities whose input tag matches the tag and that are not active, so an
\* ability whose tag does not match is never attempted.
C13_HeldActivatesMatchingInactive ==
    lastASC.op = "AbilityInputTagHeld" =>
        LET tried == {lastASC.tried[k] : k \in DOMAIN lastASC.tried} IN
        /\ ~IsValidTag(lastASC.tag) =>
              (lastASC.tried = <<>> /\ ActivatableAbilities = lastASC.before)
        /\ IsValidTag(lastASC.tag) =>
              /\ Cardinality(tried) = Len(lastASC.tried)
              /\ \A i \in DOMAIN lastASC.before :
                    i \in tried <=>
                        (/\ lastASC.before[i].DynamicAbilityTag = lastASC.tag
                         /\ ~lastASC.before[i].active)
        /\ \A i \in DOMAIN ActivatableAbilities :
              ActivatableAbilities[i] # lastASC.before[i] => i \in tried

\* The held tag matched an active ability and an inactive one, next to an
\* ability with another tag, and the inactive one was activated.
C13_Witness ==
    /\ lastASC.op = "AbilityInputTagHeld"
    /\ lastASC.tag = InputTag_LMB
    /\ \E i, j, k \in DOMAIN lastASC.before :
          /\ lastASC.before[i].DynamicAbilityTag = InputTag_LMB
          /\ lastASC.before[i].active
          /\ lastASC.before[j].DynamicAbilityTag = InputTag_LMB
          /\ ~lastASC.before[j].active
          /\ ActivatableAbilities[j].active
          /\ lastASC.before[k].DynamicAbilityTag # InputTag_LMB

-----------------------------------------------------------------------------
(***************************************************************************)
(* Properties of single effect-application requests.                       *)
(***************************************************************************)

\* C14: ApplyEffectToTarget with an unset effect class or a target without a
\* valid ability system component applies nothing and leaves
\* ActiveEffectHandles unchanged; ApplyEffectToSelf applies nothing when the
\* character's component or the effect class is invalid.
C14_InvalidRequestIsNoOp ==
    /\ (/\ lastOverlap.op = "ApplyEffectToTarget"
        /\ (\/ lastOverlap.class = None
            \/ GetAbilitySystemComponent(lastOverlap.target) = None)) =>
          /\ lastOverlap.applied = {}
          /\ ActiveEffectHandles = lastOverlap.before
    /\ (/\ lastCharacter.op = "ApplyEffectToSelf"
        /\ (AbilitySystemComponent = None \/ lastCharacter.class = None)) =>
          /\ lastCharacter.applied = <<>>
          /\ selfEffects = lastCharacter.before

\* An infinite effect was requested for a target without a component while
\* the actor tracks an earlier effect, and the character, whose player state
\* gave it a component and an effect, was asked to apply an unset class.
C14_Witness ==
    /\ lastOverlap.op = "ApplyEffectToTarget"
    /\ lastOverlap.class = "Infinite"
    /\ GetAbilitySystemComponent(lastOverlap.target) = None
    /\ ActiveEffectHandles # EmptyMap
    /\ lastCharacter.op = "ApplyEffectToSelf"
    /\ lastCharacter.class = None
    /\ AbilitySystemComponent # None
    /\ selfEffects # <<>>

====
